---- MODULE Spec2Model ----
(***************************************************************************)
(* A model of the NES data-cleanup scripts: the cutoff identifier          *)
(* (cutoff_identifier.py) and the three batch deleters (batch_deleter.py,  *)
(* enhanced_batch_deleter.py, production_batch_deleter.py).                *)
(*                                                                         *)
(* The database is abstracted to sets of row ids per table plus static     *)
(* per-row attributes (the outcome of each date comparison against NOW()). *)
(* A connection has autocommit off: `tx` is the connection's view, `db`    *)
(* the committed state; commit copies tx to db, rollback copies db to tx.  *)
(***************************************************************************)
EXTENDS Integers, Sequences, FiniteSets, TLC

\* ---------------------------------------------------------------- bounds
MaxId == 3
MaxBatchSize == 2
MaxSignals == 1
MaxFaults == 1

Ids == 1..MaxId

\* ------------------------------------------------------------------- data
\* mutant: tenant taken before the address and phone rows that join it
processing_order_TenantFirst ==
  <<"reading", "email_attachment", "email", "tenant", "invoice_detail",
    "invoice", "address", "phone", "contact">>

\* batch_deleter.py main: processing_order (children before parents)
processing_order ==
  <<"reading", "email_attachment", "email", "invoice_detail", "invoice",
    "address", "phone", "tenant", "contact">>

\* enhanced_batch_deleter.py delete_contact_dependencies: the child tables
\* of a contact, in the order their deletes are issued
polymorphic_tables == <<"email_attachment", "email_preview", "note", "phone", "address">>
direct_dependencies ==
  <<"bank", "subscription", "contact_batch", "contact_logical_unit",
    "nes_anet_customer_profile">>
EnhancedChildren ==
  polymorphic_tables \o <<"email", "tenant">> \o direct_dependencies

Range(q) == {q[i] : i \in 1..Len(q)}

TableNames == Range(processing_order) \cup Range(EnhancedChildren)

\* production_batch_deleter.py OBJECT_TYPES
dstCommunity == 49
dstTenant == 94
dstContact == 1

\* What the WHERE clauses read of a reading row (batch_deleter.py and
\* cutoff_identifier.py test date_imported, the two cascade deleters test
\* reading_date):
\*   "old"        read and imported more than 2 years ago, no sm_usage row
\*   "billed"     read and imported more than 2 years ago, an sm_usage row
\*                joins it
\*   "recent"     read and imported within the last 2 years
\*   "backfilled" read more than 2 years ago, imported within the last
\*                2 years, no sm_usage row
ReadingKinds == {"old", "billed", "recent", "backfilled"}

\* What the queries read of a contact and its related rows.
\*   tenantOld   : its tenant row has to_date NOT NULL and older than 7 years
\*   inv, je, note, email : the related row is dated within the last 7 years
\*   closed      : contact_type = 'Closed'
\*   modifiedOld : last_modified is older than 7 years
\*   legalHold   : a 'Legal Hold' attribute with val_integer = 1
\*   objType     : contact.object_type_id
Profile(to, i, j, n, e, cl, mo, lh, ot) ==
  [tenantOld |-> to, inv |-> i, je |-> j, note |-> n, email |-> e,
   closed |-> cl, modifiedOld |-> mo, legalHold |-> lh, objType |-> ot]

ContactProfileSeq ==
  << Profile(TRUE,  FALSE, FALSE, FALSE, FALSE, TRUE,  TRUE,  FALSE, dstCommunity),
     Profile(FALSE, FALSE, FALSE, FALSE, FALSE, FALSE, FALSE, FALSE, dstTenant),
     Profile(TRUE,  TRUE,  FALSE, FALSE, FALSE, TRUE,  TRUE,  FALSE, dstContact),
     Profile(TRUE,  FALSE, TRUE,  FALSE, FALSE, FALSE, TRUE,  FALSE, dstCommunity),
     Profile(TRUE,  FALSE, FALSE, TRUE,  FALSE, TRUE,  FALSE, FALSE, dstTenant),
     Profile(TRUE,  FALSE, FALSE, FALSE, TRUE,  TRUE,  TRUE,  FALSE, dstContact),
     Profile(TRUE,  FALSE, FALSE, FALSE, FALSE, TRUE,  TRUE,  TRUE,  dstCommunity) >>

ReadingKindSeq ==
  <<"old", "billed", "recent", "old", "backfilled", "recent", "old">>

\* The data sets the scripts are run on: data set d gives row i the
\* (i + d)-th kind and profile, so every kind and profile occurs at every id.
DataSets == 0..(Len(ContactProfileSeq) - 1)
Layout(q, d) == [i \in Ids |-> q[((i + d) % Len(q)) + 1]]

VARIABLES
  db,              \* committed rows: [TableNames -> SUBSET Ids]
  tx,              \* the open connection's view of the rows
  readingKind,     \* [Ids -> ReadingKinds], static
  contactProfile,  \* [Ids -> contact profile], static
  deletion_log,    \* the deletion_log table: per table_name, its rows in
                   \* log_id order
  cutoff_file,     \* the JSON file given as --cutoff-config
  script,          \* the script that is running
  args,            \* argparse result of the running invocation
  pc,              \* position of the running invocation
  interrupted,     \* self.interrupted
  \* batch_deleter.py
  tableIdx,        \* main: index into tables_to_process
  cutoff_id, start_id, current_id, end_id,
  total_deleted, batches_processed, deleted_count,
  result,          \* what the process_table call returns
  callLogLen,      \* rows the table had in deletion_log when the call began
  callDeletes,     \* DELETE statements executed by the current call
  completed,       \* <<table, cutoff>> pairs: a non-dry-run call has
                   \* processed the table up to the cutoff
  \* enhanced_batch_deleter.py, production_batch_deleter.py
  has_contact_type,  \* object_type_cache holds 'Contact'
  stage,           \* run_deletion: the table being processed
  sel_cutoff,      \* delete_contact(s)_batch: the bound of its SELECT
  contacts,        \* delete_contact(s)_batch: the rows fetched
  ci,              \* index of the contact being processed
  depIdx,          \* delete_contact_dependencies: index of the child table
  attempted,       \* <<contact, child table>> pairs a delete was issued for
  signals,         \* signals delivered to the cascade deleters so far
  identifier_raised, \* the entity whose query raised in the last run of
                   \* cutoff_identifier.py, "" when it ran to the end
  faults,          \* statements of the cascade deleters that raised so far
  unit_start,      \* the tables that held a committed row of the contact
                   \* being processed when its cascade began
  \* production_batch_deleter.py, delete_polymorphic_records_by_type
  poly_db,         \* committed rows of the polymorphic table: the number of
                   \* rows per <<object_type_id, object_id>>
  poly_tx,         \* the open connection's view of them
  object_type_id, contact_ids, batch_size,   \* the call's arguments
  chunk_start,     \* the value the for loop gives i next
  chunk            \* contact_ids[i:i + chunk_size]

bdl ==
  <<tableIdx, cutoff_id, start_id, current_id, end_id, total_deleted,
    batches_processed, deleted_count, result, callLogLen, callDeletes,
    completed>>

cas == <<has_contact_type, stage, sel_cutoff, contacts, ci, depIdx, attempted>>

pol ==
  <<poly_db, poly_tx, object_type_id, contact_ids, batch_size, chunk_start,
    chunk>>

vars ==
  <<db, tx, readingKind, contactProfile, deletion_log, cutoff_file, script,
    args, pc, interrupted, bdl, cas, signals, identifier_raised, faults,
    unit_start, pol>>

locals ==
  <<cutoff_id, start_id, current_id, end_id, total_deleted,
    batches_processed, deleted_count>>

static == <<readingKind, contactProfile, cutoff_file, script, cas>>

Min(a, b) == IF a < b THEN a ELSE b

NoArgs == [table |-> "", batch_size |-> 1, dry_run |-> TRUE]
NoResult == [total_deleted |-> 0, batches_processed |-> 0]

\* dict.get(key, default)
Get(f, k, dflt) == IF k \in DOMAIN f THEN f[k] ELSE dflt

\* load_cutoff_config: data.get('cutoffs', {})
load_cutoff_config(file) == Get(file, "cutoffs", <<>>)

cutoff_config == load_cutoff_config(cutoff_file)

\* main: tables_to_process = [args.table] if args.table else processing_order
tables_to_process ==
  IF args.table # "" THEN <<args.table>> ELSE processing_order

table_name == tables_to_process[tableIdx]

\* date_imported >= NOW() - 2 years
ImportedInWindow(r) == readingKind[r] \in {"recent", "backfilled"}

\* reading_date < NOW() - 2 years
ReadBeforeWindow(r) == readingKind[r] \in {"old", "billed", "backfilled"}

\* an sm_usage row joins the reading
Billed(r) == readingKind[r] = "billed"

\* -------------------------------------------- batch_deleter.py: statements
\* get_last_processed_id: COALESCE(MAX(batch_end_id), 0) for the table
RECURSIVE MaxEnd(_, _)
MaxEnd(rows, i) ==
  IF i = 0 THEN 0
  ELSE LET rest == MaxEnd(rows, i - 1) IN
       IF rows[i].batch_end_id > rest THEN rows[i].batch_end_id ELSE rest

\* mutant: MIN in place of MAX
get_last_processed_id_First(t) ==
  IF Len(deletion_log[t]) = 0 THEN 0 ELSE deletion_log[t][1].batch_end_id

get_last_processed_id(t) == MaxEnd(deletion_log[t], Len(deletion_log[t]))

\* NOT EXISTS (SELECT 1 FROM invoice i WHERE i.object_id = c AND
\*             i.invoice_date >= NOW() - 7 years), read in view v
NoRecentInvoice(v, c) == ~(c \in v["invoice"] /\ contactProfile[c].inv)

\* EXISTS (SELECT 1 FROM contact c JOIN tenant t ... t.to_date < NOW() - 7y
\*         AND NOT EXISTS recent invoice)
InactiveAccount(v, c) ==
  /\ c \in v["contact"]
  /\ c \in v["tenant"]
  /\ contactProfile[c].tenantOld
  /\ NoRecentInvoice(v, c)

\* delete_reading_batch: the rows its DELETE removes
ReadingBatchRows(v, s, e, cut) ==
  { r \in v["reading"] : /\ s <= r /\ r <= e
                         /\ r <= cut
                         /\ ~Billed(r)
                         /\ ~ImportedInWindow(r) }

\* delete_account_related_batch: the rows its DELETE removes from table t
AccountBatchRows(v, t, s, e, cut) ==
  LET InRange(c) == s <= c /\ c <= e /\ c <= cut IN
  CASE t = "email_attachment" ->
         { c \in v[t] : InRange(c) /\ c \in v["email"] /\ InactiveAccount(v, c) }
    [] t = "invoice_detail" ->
         { c \in v[t] : InRange(c) /\ c \in v["invoice"] /\ InactiveAccount(v, c) }
    [] t \in {"email", "invoice", "address", "phone"} ->
         { c \in v[t] : InRange(c) /\ InactiveAccount(v, c) }
    [] t = "tenant" ->
         { c \in v[t] : InRange(c) /\ contactProfile[c].tenantOld
                                   /\ NoRecentInvoice(v, c) }
    [] t = "contact" ->
         { c \in v[t] : /\ InRange(c)
                        /\ c \in v["tenant"] /\ contactProfile[c].tenantOld
                        /\ NoRecentInvoice(v, c)
                        /\ ~contactProfile[c].je
                        /\ ~(c \in v["note"] /\ contactProfile[c].note)
                        /\ ~(c \in v["email"] /\ contactProfile[c].email) }
    [] OTHER -> {}

BatchRows(v, t, s, e, cut) ==
  IF t = "reading" THEN ReadingBatchRows(v, s, e, cut)
  ELSE AccountBatchRows(v, t, s, e, cut)

\* mutant: the interrupt flag is not tested
LoopContinues_NoFlag == current_id <= cutoff_id

\* process_table: the while condition
LoopContinues == current_id <= cutoff_id /\ ~interrupted

\* mutant: end_id not clamped to the cutoff
BatchEnd_NoClamp == current_id + args.batch_size - 1

\* process_table: end_id of the batch that starts at current_id
BatchEnd == Min(current_id + args.batch_size - 1, cutoff_id)

\* mutant: the already-complete test is missing
NothingToDo_NoResume(cut, s) == cut = 0

\* process_table: the early returns before the loop
NothingToDo(cut, s) == cut = 0 \/ s > cut

\* mutant: the row carries the batch's start id only
LogEntry_StartOnly(s, e, n) ==
  [batch_start_id |-> s, batch_end_id |-> s, records_deleted |-> n]

\* log_batch_deletion: the row it inserts
LogEntry(s, e, n) ==
  [batch_start_id |-> s, batch_end_id |-> e, records_deleted |-> n]

\* ------------------------------------------------ batch_deleter.py: steps
\* signal_handler
Signal ==
  /\ script = "batch"
  /\ ~interrupted
  /\ interrupted' = TRUE
  /\ UNCHANGED <<db, tx, static, deletion_log, args, pc, tableIdx, locals,
                 result, callLogLen, callDeletes, completed>>
  /\ UNCHANGED <<signals, identifier_raised, faults, unit_start, pol>>

\* main up to the for loop: parse_args, BatchDeleter(), connect()
StartRun ==
  /\ pc = "idle"
  /\ \E t \in {"", "reading", "contact"}, b \in 1..MaxBatchSize, d \in BOOLEAN :
       args' = [table |-> t, batch_size |-> b, dry_run |-> d]
  /\ script' = "batch"
  /\ interrupted' = FALSE
  /\ tx' = db
  /\ tableIdx' = 1
  /\ pc' = "main_loop"
  /\ UNCHANGED <<db, readingKind, contactProfile, cutoff_file, cas,
                 deletion_log, locals, result, callLogLen, callDeletes,
                 completed>>
  /\ UNCHANGED <<signals, identifier_raised, faults, unit_start, pol>>

\* main: for table in tables_to_process, the tables without a cutoff skipped;
\* after the last table, disconnect and exit
MainNext ==
  /\ pc = "main_loop"
  /\ IF tableIdx > Len(tables_to_process)
     THEN /\ pc' = "idle"
          /\ tableIdx' = 1
          /\ args' = NoArgs
          /\ script' = ""
          /\ interrupted' = FALSE
          /\ tx' = db
     ELSE /\ IF table_name \in DOMAIN cutoff_config
             THEN pc' = "pt_entry" /\ tableIdx' = tableIdx
             ELSE pc' = "main_loop" /\ tableIdx' = tableIdx + 1
          /\ UNCHANGED <<args, script, interrupted, tx>>
  /\ UNCHANGED <<db, readingKind, contactProfile, cutoff_file, cas,
                 deletion_log, locals, result, callLogLen, callDeletes,
                 completed>>
  /\ UNCHANGED <<signals, identifier_raised, faults, unit_start, pol>>

\* mutant: the early return reports a batch
NoWorkResult_Counted == [total_deleted |-> 0, batches_processed |-> 1]

\* process_table: what its two early returns return
NoWorkResult == [total_deleted |-> 0, batches_processed |-> 0]

\* process_table up to the while loop
ProcessTableEntry ==
  /\ pc = "pt_entry"
  /\ callLogLen' = Len(deletion_log[table_name])
  /\ callDeletes' = 0
  /\ LET cut == cutoff_config[table_name].cutoff_id
         s == get_last_processed_id(table_name) + 1
     IN /\ cutoff_id' = cut
        /\ start_id' = s
        /\ IF NothingToDo(cut, s)
           THEN /\ result' = NoWorkResult
                /\ pc' = "pt_done"
                /\ UNCHANGED <<current_id, total_deleted, batches_processed>>
           ELSE /\ current_id' = s
                /\ total_deleted' = 0
                /\ batches_processed' = 0
                /\ pc' = "loop"
                /\ UNCHANGED result
  /\ UNCHANGED <<db, tx, static, deletion_log, args, interrupted, tableIdx,
                 end_id, deleted_count, completed>>
  /\ UNCHANGED <<signals, identifier_raised, faults, unit_start, pol>>

\* a deleter that takes no notice of the flag
dry_run_Ignored == FALSE

\* the dry_run argument of process_table and of the two run_deletion
dry_run == args.dry_run

\* mutant: a dry batch is written to the audit table like a real one
AfterDryBatch_Logged == "log"

\* process_table: a dry batch only logs to the logger and sets
\* deleted_count = 0; the iteration goes on at total_deleted += deleted_count
AfterDryBatch == "advance"

\* process_table: the while test and the head of one iteration
LoopTest ==
  /\ pc = "loop"
  /\ IF LoopContinues
     THEN /\ end_id' = BatchEnd
          /\ IF dry_run
             THEN deleted_count' = 0 /\ pc' = AfterDryBatch
             ELSE deleted_count' = deleted_count /\ pc' = "delete"
          /\ UNCHANGED <<result, completed>>
     ELSE /\ result' = [total_deleted |-> total_deleted,
                        batches_processed |-> batches_processed,
                        last_processed_id |-> current_id - args.batch_size]
          /\ pc' = "pt_done"
          /\ UNCHANGED completed
          /\ UNCHANGED <<end_id, deleted_count>>
  /\ UNCHANGED <<db, tx, static, deletion_log, args, interrupted, tableIdx,
                 cutoff_id, start_id, current_id, total_deleted,
                 batches_processed, callLogLen, callDeletes>>
  /\ UNCHANGED <<signals, identifier_raised, faults, unit_start, pol>>

\* mutant: the audit row is written in place of the commit
AfterExecute_LogFirst == "log"

\* delete_*_batch: what follows cursor.execute(DELETE): self.db.commit(),
\* and only then log_batch_deletion
AfterExecute == "commit"

\* delete_reading_batch / delete_account_related_batch: cursor.execute(DELETE)
ExecDelete ==
  /\ pc = "delete"
  /\ LET rows == BatchRows(tx, table_name, current_id, end_id, cutoff_id) IN
       /\ tx' = [tx EXCEPT ![table_name] = @ \ rows]
       /\ deleted_count' = Cardinality(rows)
  /\ callDeletes' = callDeletes + 1
  /\ pc' = AfterExecute
  /\ UNCHANGED <<db, static, deletion_log, args, interrupted, tableIdx,
                 cutoff_id, start_id, current_id, end_id, total_deleted,
                 batches_processed, result, callLogLen, completed>>
  /\ UNCHANGED <<signals, identifier_raised, faults, unit_start, pol>>

\* delete_*_batch: self.db.commit()
CommitDelete ==
  /\ pc = "commit"
  /\ db' = tx
  /\ pc' = "log"
  /\ UNCHANGED <<tx, static, deletion_log, args, interrupted, tableIdx, locals,
                 result, callLogLen, callDeletes, completed>>
  /\ UNCHANGED <<signals, identifier_raised, faults, unit_start, pol>>

\* log_batch_deletion: INSERT INTO deletion_log, commit
log_batch_deletion ==
  /\ pc = "log"
  /\ deletion_log' =
       [deletion_log EXCEPT ![table_name] =
          Append(@, LogEntry(current_id, end_id, deleted_count))]
  /\ pc' = "advance"
  /\ UNCHANGED <<db, tx, static, args, interrupted, tableIdx, locals, result,
                 callLogLen, callDeletes, completed>>
  /\ UNCHANGED <<signals, identifier_raised, faults, unit_start, pol>>

\* process_table: the tail of one iteration
Advance ==
  /\ pc = "advance"
  /\ total_deleted' = total_deleted + deleted_count
  /\ batches_processed' = batches_processed + 1
  /\ current_id' = current_id + args.batch_size
  /\ pc' = "loop"
  /\ UNCHANGED <<db, tx, static, deletion_log, args, interrupted, tableIdx,
                 cutoff_id, start_id, end_id, deleted_count, result,
                 callLogLen, callDeletes, completed>>
  /\ UNCHANGED <<signals, identifier_raised, faults, unit_start, pol>>

\* the call that returns was not a dry run and left its loop with
\* current_id > cutoff_id
RanToCutoff ==
  /\ ~args.dry_run
  /\ "last_processed_id" \in DOMAIN result
  /\ current_id > cutoff_id

\* process_table returns (its locals die); main prints the result and takes
\* the next table
ProcessTableReturn ==
  /\ pc = "pt_done"
  /\ tableIdx' = tableIdx + 1
  /\ pc' = "main_loop"
  /\ cutoff_id' = 0 /\ start_id' = 0 /\ current_id' = 0 /\ end_id' = 0
  /\ total_deleted' = 0 /\ batches_processed' = 0 /\ deleted_count' = 0
  /\ result' = NoResult
  /\ callLogLen' = 0
  /\ callDeletes' = 0
  /\ completed' = IF RanToCutoff THEN completed \cup {<<table_name, cutoff_id>>}
                  ELSE completed
  /\ UNCHANGED <<db, tx, static, deletion_log, args, interrupted>>
  /\ UNCHANGED <<signals, identifier_raised, faults, unit_start, pol>>

\* main up to the for loop, for the first run on the database: a real run
\* over all tables
StartFullRun ==
  /\ pc = "idle"
  /\ \A t \in TableNames : deletion_log[t] = <<>>
  /\ \E b \in 1..MaxBatchSize :
       args' = [table |-> "", batch_size |-> b, dry_run |-> FALSE]
  /\ script' = "batch"
  /\ interrupted' = FALSE
  /\ tx' = db
  /\ tableIdx' = 1
  /\ pc' = "main_loop"
  /\ UNCHANGED <<db, readingKind, contactProfile, cutoff_file, cas,
                 deletion_log, locals, result, callLogLen, callDeletes,
                 completed>>
  /\ UNCHANGED <<signals, identifier_raised, faults, unit_start, pol>>

\* the batches of one call that the model follows, and the audit rows
\* beyond which it starts no further run
MaxBatches == MaxId + 2
MaxRuns == 2

\* main up to the for loop, with any --batch-size argparse's type=int takes
StartRunAnySize ==
  /\ pc = "idle"
  /\ Len(deletion_log["reading"]) + Len(deletion_log["contact"]) < MaxRuns
  /\ \E t \in {"reading", "contact"}, b \in (-1)..MaxBatchSize, d \in BOOLEAN :
       args' = [table |-> t, batch_size |-> b, dry_run |-> d]
  /\ script' = "batch"
  /\ interrupted' = FALSE
  /\ tx' = db
  /\ tableIdx' = 1
  /\ pc' = "main_loop"
  /\ UNCHANGED <<db, readingKind, contactProfile, cutoff_file, cas,
                 deletion_log, locals, result, callLogLen, callDeletes,
                 completed>>
  /\ UNCHANGED <<signals, identifier_raised, faults, unit_start, pol>>

\* process_table: the tail of one iteration, followed for MaxBatches batches
AdvanceWithin ==
  /\ batches_processed < MaxBatches
  /\ Advance

\* the batch_deleter process ends without returning from main's loop: the
\* connection is closed, what it had not committed is rolled back
BatchProcessEnds ==
  /\ faults < MaxFaults
  /\ faults' = faults + 1
  /\ tx' = db
  /\ pc' = "idle"
  /\ script' = ""
  /\ args' = NoArgs
  /\ interrupted' = FALSE
  /\ tableIdx' = 1
  /\ cutoff_id' = 0 /\ start_id' = 0 /\ current_id' = 0 /\ end_id' = 0
  /\ total_deleted' = 0 /\ batches_processed' = 0 /\ deleted_count' = 0
  /\ result' = NoResult
  /\ callLogLen' = 0
  /\ callDeletes' = 0
  /\ UNCHANGED <<db, readingKind, contactProfile, deletion_log, cutoff_file,
                 completed, cas, signals, identifier_raised, unit_start, pol>>

\* a statement of delete_*_batch or log_batch_deletion raises: the exception
\* leaves process_table, main logs it and re-raises, finally disconnect()
BatchStatementRaises ==
  /\ script = "batch"
  /\ pc \in {"delete", "commit", "log"}
  /\ BatchProcessEnds

\* the process is killed, or the host goes down, between two steps
BatchCrash ==
  /\ script = "batch"
  /\ pc \in {"main_loop", "pt_entry", "loop", "delete", "commit", "log",
             "advance", "pt_done"}
  /\ BatchProcessEnds

\* ------------------------------------------ enhanced_batch_deleter.py: steps
\* the default batch_size of delete_contact_batch and delete_readings_batch
enhanced_contact_batch_size == 1000
enhanced_reading_batch_size == 10000

\* ORDER BY id: the members of S in ascending order
RECURSIVE SortedSeq(_)
SortedSeq(S) ==
  IF S = {} THEN <<>>
  ELSE LET m == CHOOSE x \in S : \A y \in S : x <= y
       IN <<m>> \o SortedSeq(S \ {m})

\* ORDER BY id LIMIT n
FirstN(S, n) == SubSeq(SortedSeq(S), 1, Min(n, Cardinality(S)))

\* LIMIT n without ORDER BY: the sets of rows the statement may take
LimitChoices(S, n) ==
  IF Cardinality(S) <= n THEN {S}
  ELSE {T \in SUBSET S : Cardinality(T) = n}

\* delete_readings_batch: the rows its DELETE matches
CascadeReadingRows(v, cut) ==
  { r \in v["reading"] : r <= cut /\ ~Billed(r) /\ ReadBeforeWindow(r) }

\* run_deletion returns: finally disconnect(); the process ends
CascadeExit ==
  /\ pc' = "idle"
  /\ script' = ""
  /\ args' = NoArgs
  /\ interrupted' = FALSE
  /\ tx' = db
  /\ has_contact_type' = TRUE
  /\ stage' = ""
  /\ sel_cutoff' = 0
  /\ contacts' = <<>>
  /\ ci' = 1
  /\ depIdx' = 1
  /\ attempted' = {}

\* main, and run_deletion up to its dispatch on table_name
EnhancedRun ==
  /\ pc = "idle"
  /\ \E t \in {"", "reading", "contact"}, d \in BOOLEAN :
       args' = [table |-> t, batch_size |-> 1, dry_run |-> d]
  /\ script' = "enhanced"
  /\ interrupted' = FALSE
  /\ tx' = db
  /\ pc' = "e_run"
  /\ UNCHANGED <<db, readingKind, contactProfile, deletion_log, cutoff_file,
                 bdl, cas>>
  /\ UNCHANGED <<signals, identifier_raised, faults, unit_start, pol>>

\* run_deletion: dry run, load_object_types, and the table to start with
EnhancedDispatch ==
  /\ pc = "e_run"
  /\ LET rc == Get(cutoff_file, "reading_cutoff", 0)
         cc == Get(cutoff_file, "contact_cutoff", 0)
         first == IF args.table # "" THEN args.table
                  ELSE IF rc > 0 THEN "reading"
                  ELSE IF cc > 0 THEN "contact" ELSE "none"
     IN IF dry_run \/ first = "none"
        THEN CascadeExit /\ UNCHANGED db
        ELSE /\ has_contact_type' \in BOOLEAN
             /\ stage' = first
             /\ sel_cutoff' = IF first = "reading" THEN rc ELSE cc
             /\ pc' = IF first = "reading" THEN "e_read" ELSE "e_select"
             /\ UNCHANGED <<db, tx, script, args, interrupted, contacts, ci,
                            depIdx, attempted>>
  /\ UNCHANGED <<readingKind, contactProfile, deletion_log, cutoff_file, bdl>>
  /\ UNCHANGED <<signals, identifier_raised, faults, unit_start, pol>>

\* delete_readings_batch: one iteration of its loop, and what run_deletion
\* does when the loop is left
EnhancedReadings ==
  /\ pc = "e_read"
  /\ \E rows \in LimitChoices(CascadeReadingRows(tx, sel_cutoff),
                             enhanced_reading_batch_size) :
       LET stop == interrupted \/ Cardinality(rows) < enhanced_reading_batch_size
           cc == Get(cutoff_file, "contact_cutoff", 0)
       IN /\ IF interrupted
             THEN UNCHANGED <<db, tx>>
             ELSE /\ tx' = [tx EXCEPT !["reading"] = @ \ rows]
                  /\ db' = IF rows = {} THEN db ELSE tx'
          /\ IF ~stop
             THEN UNCHANGED <<pc, stage, sel_cutoff, script, args,
                              interrupted, has_contact_type, contacts, ci,
                              depIdx, attempted>>
             ELSE IF args.table = "" /\ cc > 0
                  THEN /\ stage' = "contact"
                       /\ sel_cutoff' = cc
                       /\ pc' = "e_select"
                       /\ UNCHANGED <<script, args, interrupted,
                                      has_contact_type, contacts, ci, depIdx,
                                      attempted>>
                  ELSE /\ pc' = "idle" /\ script' = "" /\ args' = NoArgs
                       /\ interrupted' = FALSE
                       /\ has_contact_type' = TRUE /\ stage' = ""
                       /\ sel_cutoff' = 0 /\ contacts' = <<>> /\ ci' = 1
                       /\ depIdx' = 1 /\ attempted' = {}
  /\ UNCHANGED <<readingKind, contactProfile, deletion_log, cutoff_file, bdl>>
  /\ UNCHANGED <<signals, identifier_raised, faults, unit_start, pol>>

\* delete_contact_batch: the while test and the SELECT of the next batch
EnhancedSelect ==
  /\ pc = "e_select"
  /\ LET found == FirstN({c \in tx["contact"] : c <= sel_cutoff},
                         enhanced_contact_batch_size)
     IN IF interrupted \/ found = <<>>
        THEN CascadeExit /\ UNCHANGED db
        ELSE /\ contacts' = found
             /\ ci' = 1
             /\ pc' = "e_for"
             /\ UNCHANGED <<db, tx, script, args, interrupted,
                            has_contact_type, stage, sel_cutoff, depIdx,
                            attempted>>
  /\ UNCHANGED <<readingKind, contactProfile, deletion_log, cutoff_file, bdl>>
  /\ UNCHANGED <<signals, identifier_raised, faults, unit_start, pol>>

\* the tables that hold a row of contact c in view v
RowsOf(v, c) == { t \in TableNames \ {"reading"} : c \in v[t] }

\* delete_contact_batch: the head of the for loop, and
\* delete_contact_dependencies up to its first level
EnhancedFor ==
  /\ pc = "e_for"
  /\ IF ci > Len(contacts) \/ interrupted
     THEN pc' = "e_bulk" /\ depIdx' = depIdx /\ unit_start' = {}
     ELSE /\ unit_start' = RowsOf(db, contacts[ci])
          /\ IF has_contact_type
             THEN pc' = "e_dep" /\ depIdx' = 1
             ELSE pc' = "e_contact" /\ depIdx' = depIdx
  /\ UNCHANGED <<db, tx, readingKind, contactProfile, deletion_log,
                 cutoff_file, script, args, interrupted, bdl,
                 has_contact_type, stage, sel_cutoff, contacts, ci, attempted>>
  /\ UNCHANGED <<signals, identifier_raised, faults, pol>>

\* the rows of child table t that a delete for contact c removes
\* (email_attachment and email_preview rows are found through the contact's
\* email rows)
ChildRows(v, t, c) ==
  IF t \in {"email_attachment", "email_preview"}
  THEN IF c \in v["email"] THEN {c} \cap v[t] ELSE {}
  ELSE {c} \cap v[t]

\* delete_contact_dependencies: the delete on one child table, committed;
\* with the flag set every remaining level is skipped
EnhancedDependency ==
  /\ pc = "e_dep"
  /\ LET c == contacts[ci]
         t == EnhancedChildren[depIdx]
     IN IF interrupted
        THEN /\ pc' = "e_contact"
             /\ UNCHANGED <<db, tx, depIdx, attempted>>
        ELSE /\ tx' = [tx EXCEPT ![t] = @ \ ChildRows(tx, t, c)]
             /\ db' = tx'
             /\ attempted' = attempted \cup {<<c, t>>}
             /\ IF depIdx = Len(EnhancedChildren)
                THEN pc' = "e_contact" /\ depIdx' = depIdx
                ELSE pc' = "e_dep" /\ depIdx' = depIdx + 1
  /\ UNCHANGED <<readingKind, contactProfile, deletion_log, cutoff_file,
                 script, args, interrupted, bdl, has_contact_type, stage,
                 sel_cutoff, contacts, ci>>
  /\ UNCHANGED <<signals, identifier_raised, faults, unit_start, pol>>

\* delete_contact_batch: DELETE FROM contact WHERE contact_id = c, commit
EnhancedContactDelete ==
  /\ pc = "e_contact"
  /\ tx' = [tx EXCEPT !["contact"] = @ \ {contacts[ci]}]
  /\ db' = IF contacts[ci] \in tx["contact"] THEN tx' ELSE db
  /\ ci' = ci + 1
  /\ pc' = "e_for"
  /\ UNCHANGED <<readingKind, contactProfile, deletion_log, cutoff_file,
                 script, args, interrupted, bdl, has_contact_type, stage,
                 sel_cutoff, contacts, depIdx, attempted>>
  /\ UNCHANGED <<signals, identifier_raised, faults, unit_start, pol>>

\* delete_contact_batch: DELETE FROM contact WHERE contact_id <= the last id
\* of the batch, commit
EnhancedBulkDelete ==
  /\ pc = "e_bulk"
  /\ tx' = [tx EXCEPT !["contact"] =
              {c \in @ : c > contacts[Len(contacts)]}]
  /\ db' = tx'
  /\ pc' = "e_select"
  /\ UNCHANGED <<readingKind, contactProfile, deletion_log, cutoff_file,
                 script, args, interrupted, bdl, has_contact_type, stage,
                 sel_cutoff, contacts, ci, depIdx, attempted>>
  /\ UNCHANGED <<signals, identifier_raised, faults, unit_start, pol>>


\* delete_contact_dependencies when the DELETE on a child table raises: its
\* except clause rolls back and re-raises, delete_contact_batch's except
\* clause rolls back and continues with the next contact
EnhancedDependencyRaises ==
  /\ pc = "e_dep"
  /\ ~interrupted
  /\ faults < MaxFaults
  /\ faults' = faults + 1
  /\ tx' = db
  /\ ci' = ci + 1
  /\ pc' = "e_for"
  /\ UNCHANGED <<db, readingKind, contactProfile, deletion_log, cutoff_file,
                 script, args, interrupted, bdl, has_contact_type, stage,
                 sel_cutoff, contacts, depIdx, attempted, signals,
                 identifier_raised, unit_start, pol>>

\* signal_handler of the two cascade deleters
CascadeSignal ==
  /\ script \in {"enhanced", "production"}
  /\ ~interrupted
  /\ signals < MaxSignals
  /\ interrupted' = TRUE
  /\ signals' = signals + 1
  /\ UNCHANGED <<db, tx, readingKind, contactProfile, deletion_log,
                 cutoff_file, script, args, pc, bdl, cas, identifier_raised,
                 faults, unit_start, pol>>

\* ---------------------------------------- production_batch_deleter.py: steps
\* BATCH_SIZES['contact'] (100 in the source), scaled so that the contacts up
\* to a cutoff can fill more than one batch
production_contact_batch_size == 2

\* BATCH_SIZES['reading']
production_reading_batch_size == 10000

\* delete_contact_dependencies: the child tables deleted for a contact of
\* object type ot, in the order their deletes are issued
ProductionChildren(ot) ==
  (IF ot = dstCommunity THEN <<"address", "phone", "note">>
   ELSE IF ot = dstTenant THEN <<"phone", "address", "note", "email">>
   ELSE <<"address", "phone", "note", "email">>)
  \o direct_dependencies

\* delete_contacts_batch: the rows its SELECT matches
ProductionMatches(v, bound, filter) ==
  { c \in v["contact"] :
      c <= bound /\ (filter # 0 => contactProfile[c].objType = filter) }

\* run_deletion: the object_type_filter of the stage
StageFilter(st) == IF st = "community" THEN dstCommunity ELSE 0

\* main, and run_deletion up to its dispatch on table_name
ProductionRun ==
  /\ pc = "idle"
  /\ \E t \in {"", "reading", "contact", "community"}, d \in BOOLEAN :
       args' = [table |-> t, batch_size |-> 1, dry_run |-> d]
  /\ script' = "production"
  /\ interrupted' = FALSE
  /\ tx' = db
  /\ pc' = "p_run"
  /\ UNCHANGED <<db, readingKind, contactProfile, deletion_log, cutoff_file,
                 bdl, cas>>
  /\ UNCHANGED <<signals, identifier_raised, faults, unit_start, pol>>

\* run_deletion: dry run, and the table to start with
ProductionDispatch ==
  /\ pc = "p_run"
  /\ LET rc == Get(cutoff_file, "reading_cutoff", 0)
         cc == Get(cutoff_file, "contact_cutoff", 0)
         first == IF args.table # "" THEN args.table
                  ELSE IF rc > 0 THEN "reading"
                  ELSE IF cc > 0 THEN "community" ELSE "none"
     IN IF dry_run \/ first = "none"
        THEN CascadeExit /\ UNCHANGED db
        ELSE /\ stage' = first
             /\ sel_cutoff' = IF first = "reading" THEN rc ELSE cc
             /\ pc' = IF first = "reading" THEN "p_read" ELSE "p_select"
             /\ UNCHANGED <<db, tx, script, args, interrupted,
                            has_contact_type, contacts, ci, depIdx, attempted>>
  /\ UNCHANGED <<readingKind, contactProfile, deletion_log, cutoff_file, bdl>>
  /\ UNCHANGED <<signals, identifier_raised, faults, unit_start, pol>>

\* delete_readings_batch: one iteration of its loop, and what run_deletion
\* does when the loop is left
ProductionReadings ==
  /\ pc = "p_read"
  /\ \E rows \in LimitChoices(CascadeReadingRows(tx, sel_cutoff),
                             production_reading_batch_size) :
       LET stop == interrupted \/ Cardinality(rows) < production_reading_batch_size
           cc == Get(cutoff_file, "contact_cutoff", 0)
       IN /\ IF interrupted
             THEN UNCHANGED <<db, tx>>
             ELSE /\ tx' = [tx EXCEPT !["reading"] = @ \ rows]
                  /\ db' = IF rows = {} THEN db ELSE tx'
          /\ IF ~stop
             THEN UNCHANGED <<pc, stage, sel_cutoff, script, args,
                              interrupted, has_contact_type, contacts, ci,
                              depIdx, attempted>>
             ELSE IF args.table = "" /\ cc > 0
                  THEN /\ stage' = "community"
                       /\ sel_cutoff' = cc
                       /\ pc' = "p_select"
                       /\ UNCHANGED <<script, args, interrupted,
                                      has_contact_type, contacts, ci, depIdx,
                                      attempted>>
                  ELSE /\ pc' = "idle" /\ script' = "" /\ args' = NoArgs
                       /\ interrupted' = FALSE
                       /\ has_contact_type' = TRUE /\ stage' = ""
                       /\ sel_cutoff' = 0 /\ contacts' = <<>> /\ ci' = 1
                       /\ depIdx' = 1 /\ attempted' = {}
  /\ UNCHANGED <<readingKind, contactProfile, deletion_log, cutoff_file, bdl>>
  /\ UNCHANGED <<signals, identifier_raised, faults, unit_start, pol>>

\* delete_contacts_batch: the while test and the SELECT of the next batch;
\* when the loop is left, run_deletion goes on to its next call
ProductionSelect ==
  /\ pc = "p_select"
  /\ LET found == FirstN(ProductionMatches(tx, sel_cutoff, StageFilter(stage)),
                         production_contact_batch_size)
     IN IF interrupted \/ found = <<>>
        THEN IF args.table = "" /\ stage = "community"
             THEN /\ stage' = "contact"
                  /\ sel_cutoff' = Get(cutoff_file, "contact_cutoff", 0)
                  /\ contacts' = <<>>
                  /\ ci' = 1
                  /\ UNCHANGED <<db, tx, pc, script, args, interrupted,
                                 has_contact_type, depIdx, attempted>>
             ELSE CascadeExit /\ UNCHANGED db
        ELSE /\ contacts' = found
             /\ ci' = 1
             /\ pc' = "p_for"
             /\ UNCHANGED <<db, tx, script, args, interrupted,
                            has_contact_type, stage, sel_cutoff, depIdx,
                            attempted>>
  /\ UNCHANGED <<readingKind, contactProfile, deletion_log, cutoff_file, bdl>>
  /\ UNCHANGED <<signals, identifier_raised, faults, unit_start, pol>>

\* delete_contacts_batch: the head of the for loop
ProductionFor ==
  /\ pc = "p_for"
  /\ IF ci > Len(contacts) \/ interrupted
     THEN pc' = "p_next" /\ depIdx' = depIdx /\ unit_start' = {}
     ELSE pc' = "p_dep" /\ depIdx' = 1
          /\ unit_start' = RowsOf(db, contacts[ci])
  /\ UNCHANGED <<db, tx, readingKind, contactProfile, deletion_log,
                 cutoff_file, script, args, interrupted, bdl,
                 has_contact_type, stage, sel_cutoff, contacts, ci, attempted>>
  /\ UNCHANGED <<signals, identifier_raised, faults, pol>>

\* delete_contact_dependencies: the delete on one child table, committed;
\* with the flag set every remaining table is skipped
ProductionDependency ==
  /\ pc = "p_dep"
  /\ LET c == contacts[ci]
         children == ProductionChildren(contactProfile[c].objType)
         t == children[depIdx]
     IN IF interrupted
        THEN /\ pc' = "p_contact"
             /\ UNCHANGED <<db, tx, depIdx, attempted>>
        ELSE /\ tx' = [tx EXCEPT ![t] = @ \ ChildRows(tx, t, c)]
             /\ db' = tx'
             /\ attempted' = attempted \cup {<<c, t>>}
             /\ IF depIdx = Len(children)
                THEN pc' = "p_contact" /\ depIdx' = depIdx
                ELSE pc' = "p_dep" /\ depIdx' = depIdx + 1
  /\ UNCHANGED <<readingKind, contactProfile, deletion_log, cutoff_file,
                 script, args, interrupted, bdl, has_contact_type, stage,
                 sel_cutoff, contacts, ci>>
  /\ UNCHANGED <<signals, identifier_raised, faults, unit_start, pol>>

\* delete_contact_dependencies when the DELETE on a child table raises: the
\* except clause around it rolls back and re-raises, delete_contacts_batch's
\* except clause rolls back and continues with the next contact
ProductionDependencyRaises ==
  /\ pc = "p_dep"
  /\ ~interrupted
  /\ faults < MaxFaults
  /\ faults' = faults + 1
  /\ tx' = db
  /\ ci' = ci + 1
  /\ pc' = "p_for"
  /\ UNCHANGED <<db, readingKind, contactProfile, deletion_log, cutoff_file,
                 script, args, interrupted, bdl, has_contact_type, stage,
                 sel_cutoff, contacts, depIdx, attempted, signals,
                 identifier_raised, unit_start, pol>>

\* delete_contacts_batch: DELETE FROM contact WHERE contact_id = c, commit
ProductionContactDelete ==
  /\ pc = "p_contact"
  /\ tx' = [tx EXCEPT !["contact"] = @ \ {contacts[ci]}]
  /\ db' = IF contacts[ci] \in tx["contact"] THEN tx' ELSE db
  /\ ci' = ci + 1
  /\ pc' = "p_for"
  /\ UNCHANGED <<readingKind, contactProfile, deletion_log, cutoff_file,
                 script, args, interrupted, bdl, has_contact_type, stage,
                 sel_cutoff, contacts, depIdx, attempted>>
  /\ UNCHANGED <<signals, identifier_raised, faults, unit_start, pol>>

\* delete_contacts_batch: params[0] = last_contact_id - 1
ProductionNextBatch ==
  /\ pc = "p_next"
  /\ sel_cutoff' = contacts[Len(contacts)] - 1
  /\ pc' = "p_select"
  /\ UNCHANGED <<db, tx, readingKind, contactProfile, deletion_log,
                 cutoff_file, script, args, interrupted, bdl,
                 has_contact_type, stage, contacts, ci, depIdx, attempted>>
  /\ UNCHANGED <<signals, identifier_raised, faults, unit_start, pol>>

\* ------------------------------------------------ cutoff_identifier.py
\* (the file carries a stray fragment after identify_contact_cutoff's return;
\* the function bodies are modelled as they read up to their return)
SetMax(S) == IF S = {} THEN 0 ELSE CHOOSE x \in S : \A y \in S : y <= x
SetMin(S) == IF S = {} THEN 0 ELSE CHOOSE x \in S : \A y \in S : x <= y

\* a cutoffs entry as generate_cutoff_report writes it
CutoffEntry(c, n, safe) ==
  [cutoff_id |-> c, estimated_deletions |-> n, is_safe |-> safe]

\* readings WHERE date_imported >= NOW() - 2 years
InWindowReadings(v) == { r \in v["reading"] : ImportedInWindow(r) }

\* identify_reading_cutoff
identify_reading_cutoff(v) ==
  LET found == SetMin(InWindowReadings(v)) IN
  IF found = 0
  THEN CutoffEntry(SetMax(v["reading"]) + 1, 0, TRUE)
  ELSE CutoffEntry(found, Cardinality({ r \in v["reading"] : r < found }), TRUE)

\* contacts WHERE contact_type = 'Closed' AND last_modified < NOW() - 7 years
\* (no contact_name of the data sets starts with 'ZY')
ClosedOld(v) ==
  { c \in v["contact"] : contactProfile[c].closed /\ contactProfile[c].modifiedOld }

\* identify_contact_cutoff: its safety check,
\* COUNT(*) WHERE contact_id <= cutoff AND last_modified >= NOW() - 7 years
recent_activity_count(v, cut) ==
  Cardinality({ c \in v["contact"] : c <= cut /\ ~contactProfile[c].modifiedOld })

\* identify_contact_cutoff
identify_contact_cutoff(v) ==
  LET cut == SetMax(ClosedOld(v)) IN
  CutoffEntry(cut, Cardinality(ClosedOld(v)) + 0, recent_activity_count(v, cut) = 0)

\* mutant: only the reading entry decides the status
safety_status_ReadingOnly(reading_safe, contact_safe) ==
  IF reading_safe THEN "SAFE" ELSE "REQUIRES_REVIEW"

\* generate_cutoff_report: all_safe = reading_safe and contact_safe;
\* 'SAFE' if all_safe else 'REQUIRES_REVIEW'
safety_status(reading_safe, contact_safe) ==
  IF reading_safe /\ contact_safe THEN "SAFE" ELSE "REQUIRES_REVIEW"

\* generate_cutoff_report, as save_report writes it
generate_cutoff_report(v) ==
  LET r == identify_reading_cutoff(v)
      c == identify_contact_cutoff(v)
  IN [cutoffs |-> [t \in {"reading", "contact"} |->
                     IF t = "reading" THEN r ELSE c],
      safety_status |-> safety_status(r.is_safe, c.is_safe)]

\* main of cutoff_identifier.py: connect, generate_cutoff_report, save_report
Identify ==
  /\ pc = "idle"
  /\ cutoff_file' = generate_cutoff_report(db)
  /\ identifier_raised' = ""
  /\ UNCHANGED <<db, tx, readingKind, contactProfile, deletion_log, script,
                 args, pc, interrupted, bdl, cas, signals, faults, unit_start, pol>>

\* the entities generate_cutoff_report queries
Entities == {"reading", "contact"}

\* main of cutoff_identifier.py when a query of one entity raises: the
\* exception leaves generate_cutoff_report, main logs it and re-raises;
\* save_report is not reached
IdentifyRaises ==
  /\ pc = "idle"
  /\ \E e \in Entities : identifier_raised' = e
  /\ UNCHANGED <<db, tx, readingKind, contactProfile, deletion_log,
                 cutoff_file, script, args, pc, interrupted, bdl, cas,
                 signals, faults, unit_start, pol>>

\* ------------------------------------------------------------ specification
AllRows == [t \in TableNames |-> Ids]

\* cutoff files in the identifier's layout, naming reading and contact
ReportFiles ==
  { [cutoffs |-> [t \in {"reading", "contact"} |-> CutoffEntry(c, 0, TRUE)],
     safety_status |-> "SAFE"] : c \in {0, MaxId} }

\* cutoff files in the layout run_deletion reads
FlatFiles ==
  { [reading_cutoff |-> c, contact_cutoff |-> c] : c \in {0, MaxId - 1, MaxId} }

\* hand-written cutoff files that configure every table batch_deleter
\* knows, as main's loop over processing_order expects
FullFiles ==
  { [cutoffs |-> [t \in Range(processing_order) |-> CutoffEntry(c, 0, TRUE)]] :
      c \in {MaxId - 1, MaxId} }

\* ------------------------- production_batch_deleter.py, polymorphic delete
\* chunk_size = 1000 in the source, scaled down
chunk_size == 2

\* the object types the polymorphic table holds rows of
PolyTypes == {dstContact, dstCommunity}
PolyKeys == PolyTypes \X Ids

\* rows per object id, rotated over the ids as Layout does
PolyCountSeq == <<2, 0, 1, 3, 1, 0, 2>>
PolyTables ==
  { [k \in PolyKeys |->
       IF k[1] = dstContact THEN Layout(PolyCountSeq, d)[k[2]]
       ELSE Layout(PolyCountSeq, d + 1)[k[2]]] : d \in DataSets }

\* the lists of object ids the function may be given
IdLists == UNION { [1..n -> Ids] : n \in 0..(chunk_size + 1) }

RECURSIVE SumOver(_, _)
SumOver(f, S) ==
  IF S = {} THEN 0
  ELSE LET x == CHOOSE y \in S : TRUE IN f[x] + SumOver(f, S \ {x})

\* contact_ids[i:i + chunk_size]
Slice(ids, i) == SubSeq(ids, i + 1, Min(i + chunk_size, Len(ids)))

\* the keys of the rows that match
\* WHERE object_type_id = %s AND object_id IN (chunk)
Matching(ty, ch) == { k \in PolyKeys : k[1] = ty /\ k[2] \in Range(ch) }

\* what DELETE ... LIMIT n may remove from table v: any n of the matching
\* rows, or all of them when there are fewer
LimitedDeletes(v, ty, ch, n) ==
  LET M == Matching(ty, ch)
      total == SumOver(v, M)
      part == { d \in [M -> 0..n] : /\ \A k \in M : d[k] <= v[k]
                                    /\ SumOver(d, M) = Min(n, total) }
  IN { [k \in PolyKeys |-> IF k \in M THEN d[k] ELSE 0] : d \in part }

\* a sub-batch that leaves the while loop although it filled its LIMIT
LastSubBatch_AtLimit(n, limit) == n <= limit

\* if deleted_count < batch_size: break
LastSubBatch(n, limit) == n < limit

\* no call of delete_polymorphic_records_by_type is in progress
PolymorphicIdle ==
  /\ poly_db = [k \in PolyKeys |-> 0]
  /\ poly_tx = poly_db
  /\ object_type_id = dstContact
  /\ contact_ids = <<>>
  /\ batch_size = 1
  /\ chunk_start = 0
  /\ chunk = <<>>

\* what the function leaves alone
PolymorphicFrame ==
  UNCHANGED <<db, tx, readingKind, contactProfile, deletion_log, cutoff_file,
              script, args, tableIdx, cutoff_id, start_id, current_id, end_id,
              batches_processed, result, callLogLen, callDeletes, completed,
              cas, identifier_raised, faults, unit_start, object_type_id,
              contact_ids, batch_size>>

\* signal_handler during the call
PolymorphicSignal ==
  /\ pc \in {"dp_entry", "dp_for", "dp_while", "dp_commit"}
  /\ ~interrupted
  /\ signals < MaxSignals
  /\ interrupted' = TRUE
  /\ signals' = signals + 1
  /\ PolymorphicFrame
  /\ UNCHANGED <<pc, total_deleted, deleted_count, poly_db, poly_tx,
                 chunk_start, chunk>>

\* if not contact_ids: return 0; cursor, total_deleted = 0
PolymorphicEntry ==
  /\ pc = "dp_entry"
  /\ total_deleted' = 0
  /\ chunk_start' = 0
  /\ pc' = IF contact_ids = <<>> THEN "dp_done" ELSE "dp_for"
  /\ PolymorphicFrame
  /\ UNCHANGED <<interrupted, signals, deleted_count, poly_db, poly_tx, chunk>>

\* for i in range(0, len(contact_ids), chunk_size): if self.interrupted: break
PolymorphicFor ==
  /\ pc = "dp_for"
  /\ IF chunk_start >= Len(contact_ids) \/ interrupted
     THEN pc' = "dp_done" /\ UNCHANGED <<chunk, chunk_start>>
     ELSE /\ chunk' = Slice(contact_ids, chunk_start)
          /\ chunk_start' = chunk_start + chunk_size
          /\ pc' = "dp_while"
  /\ PolymorphicFrame
  /\ UNCHANGED <<interrupted, signals, total_deleted, deleted_count, poly_db,
                 poly_tx>>

\* while not self.interrupted: cursor.execute(DELETE ... LIMIT batch_size);
\* if deleted_count == 0: break
PolymorphicDelete ==
  /\ pc = "dp_while"
  /\ IF interrupted
     THEN /\ pc' = "dp_for"
          /\ UNCHANGED <<poly_tx, deleted_count, total_deleted>>
     ELSE \E d \in LimitedDeletes(poly_tx, object_type_id, chunk, batch_size) :
            /\ poly_tx' = [k \in PolyKeys |-> poly_tx[k] - d[k]]
            /\ deleted_count' = SumOver(d, PolyKeys)
            /\ total_deleted' = total_deleted + deleted_count'
            /\ pc' = IF deleted_count' = 0 THEN "dp_for" ELSE "dp_commit"
  /\ PolymorphicFrame
  /\ UNCHANGED <<interrupted, signals, poly_db, chunk_start, chunk>>

\* self.db.commit(); if deleted_count < batch_size: break
PolymorphicCommit ==
  /\ pc = "dp_commit"
  /\ poly_db' = poly_tx
  /\ pc' = IF LastSubBatch(deleted_count, batch_size) THEN "dp_for"
           ELSE "dp_while"
  /\ PolymorphicFrame
  /\ UNCHANGED <<interrupted, signals, total_deleted, deleted_count, poly_tx,
                 chunk_start, chunk>>

InitData ==
  /\ db = AllRows
  /\ tx = AllRows
  /\ \E d \in DataSets : /\ readingKind = Layout(ReadingKindSeq, d)
                         /\ contactProfile = Layout(ContactProfileSeq, d)
  /\ deletion_log = [t \in TableNames |-> <<>>]

InitLocals ==
  /\ interrupted = FALSE
  /\ tableIdx = 1
  /\ cutoff_id = 0 /\ start_id = 0 /\ current_id = 0 /\ end_id = 0
  /\ total_deleted = 0 /\ batches_processed = 0 /\ deleted_count = 0
  /\ result = NoResult
  /\ callLogLen = 0
  /\ callDeletes = 0
  /\ completed = {}
  /\ has_contact_type = TRUE
  /\ stage = ""
  /\ sel_cutoff = 0
  /\ contacts = <<>>
  /\ ci = 1
  /\ depIdx = 1
  /\ attempted = {}
  /\ signals = 0
  /\ identifier_raised = ""
  /\ faults = 0
  /\ unit_start = {}

Init ==
  /\ InitData
  /\ InitLocals
  /\ PolymorphicIdle
  /\ cutoff_file \in ReportFiles \cup FlatFiles
  /\ script = ""
  /\ args = NoArgs
  /\ pc = "idle"

Next ==
  \/ Identify
  \/ StartRun
  \/ Signal
  \/ MainNext
  \/ ProcessTableEntry
  \/ LoopTest
  \/ ExecDelete
  \/ CommitDelete
  \/ log_batch_deletion
  \/ Advance
  \/ ProcessTableReturn

Spec == Init /\ [][Next]_vars

\* the two cascade deleters, run in any order against the same database
NextCascade ==
  \/ CascadeSignal
  \/ EnhancedRun
  \/ EnhancedDispatch
  \/ EnhancedReadings
  \/ EnhancedSelect
  \/ EnhancedFor
  \/ EnhancedDependency
  \/ EnhancedContactDelete
  \/ EnhancedBulkDelete
  \/ ProductionRun
  \/ ProductionDispatch
  \/ ProductionReadings
  \/ ProductionSelect
  \/ ProductionFor
  \/ ProductionDependency
  \/ ProductionContactDelete
  \/ ProductionNextBatch

SpecCascade == Init /\ [][NextCascade]_vars

\* the cascade deleters, uninterrupted, with statements that may raise
NextFault ==
  \/ EnhancedRun
  \/ EnhancedDispatch
  \/ EnhancedReadings
  \/ EnhancedSelect
  \/ EnhancedFor
  \/ EnhancedDependency
  \/ EnhancedDependencyRaises
  \/ EnhancedContactDelete
  \/ EnhancedBulkDelete
  \/ ProductionRun
  \/ ProductionDispatch
  \/ ProductionReadings
  \/ ProductionSelect
  \/ ProductionFor
  \/ ProductionDependency
  \/ ProductionDependencyRaises
  \/ ProductionContactDelete
  \/ ProductionNextBatch

SpecFault == Init /\ [][NextFault]_vars

\* batch_deleter with failing statements and crashes
NextCrash ==
  \/ StartRun
  \/ MainNext
  \/ ProcessTableEntry
  \/ LoopTest
  \/ ExecDelete
  \/ CommitDelete
  \/ log_batch_deletion
  \/ Advance
  \/ ProcessTableReturn
  \/ BatchStatementRaises
  \/ BatchCrash

SpecCrash == Init /\ [][NextCrash]_vars

\* batch_deleter started with any integer batch size
NextAnySize ==
  \/ StartRunAnySize
  \/ Signal
  \/ MainNext
  \/ ProcessTableEntry
  \/ LoopTest
  \/ ExecDelete
  \/ CommitDelete
  \/ log_batch_deletion
  \/ AdvanceWithin
  \/ ProcessTableReturn

SpecAnySize == Init /\ [][NextAnySize]_vars

\* the first run of batch_deleter on the database: a real run over all
\* tables with every table configured, uninterrupted
InitFirstRun ==
  /\ InitData
  /\ InitLocals
  /\ PolymorphicIdle
  /\ cutoff_file \in FullFiles
  /\ script = ""
  /\ args = NoArgs
  /\ pc = "idle"

NextFirstRun ==
  \/ StartFullRun
  \/ MainNext
  \/ ProcessTableEntry
  \/ LoopTest
  \/ ExecDelete
  \/ CommitDelete
  \/ log_batch_deletion
  \/ Advance
  \/ ProcessTableReturn

SpecFirstRun == InitFirstRun /\ [][NextFirstRun]_vars

\* the three deleters, run to completion in any order
NextDeleters ==
  \/ StartRun
  \/ MainNext
  \/ ProcessTableEntry
  \/ LoopTest
  \/ ExecDelete
  \/ CommitDelete
  \/ log_batch_deletion
  \/ Advance
  \/ ProcessTableReturn
  \/ EnhancedRun
  \/ EnhancedDispatch
  \/ EnhancedReadings
  \/ EnhancedSelect
  \/ EnhancedFor
  \/ EnhancedDependency
  \/ EnhancedContactDelete
  \/ EnhancedBulkDelete
  \/ ProductionRun
  \/ ProductionDispatch
  \/ ProductionReadings
  \/ ProductionSelect
  \/ ProductionFor
  \/ ProductionDependency
  \/ ProductionContactDelete
  \/ ProductionNextBatch

SpecDeleters == Init /\ [][NextDeleters]_vars

\* the three deleters, run to completion in any order, on cutoff files that
\* configure every table
InitFullRun ==
  /\ InitData
  /\ InitLocals
  /\ PolymorphicIdle
  /\ cutoff_file \in FullFiles \cup FlatFiles
  /\ script = ""
  /\ args = NoArgs
  /\ pc = "idle"

NextFullRun ==
  \/ StartRun
  \/ MainNext
  \/ ProcessTableEntry
  \/ LoopTest
  \/ ExecDelete
  \/ CommitDelete
  \/ log_batch_deletion
  \/ Advance
  \/ ProcessTableReturn
  \/ EnhancedRun
  \/ EnhancedDispatch
  \/ EnhancedReadings
  \/ EnhancedSelect
  \/ EnhancedFor
  \/ EnhancedDependency
  \/ EnhancedContactDelete
  \/ EnhancedBulkDelete
  \/ ProductionRun
  \/ ProductionDispatch
  \/ ProductionReadings
  \/ ProductionSelect
  \/ ProductionFor
  \/ ProductionDependency
  \/ ProductionContactDelete
  \/ ProductionNextBatch

SpecFullRun == InitFullRun /\ [][NextFullRun]_vars

\* delete_polymorphic_records_by_type alone, called with any list of ids,
\* either object type and any of the batch sizes on any of the tables
InitPolymorphic ==
  /\ db = AllRows
  /\ tx = AllRows
  /\ readingKind = Layout(ReadingKindSeq, 0)
  /\ contactProfile = Layout(ContactProfileSeq, 0)
  /\ deletion_log = [t \in TableNames |-> <<>>]
  /\ InitLocals
  /\ cutoff_file = [reading_cutoff |-> 0, contact_cutoff |-> 0]
  /\ script = "production"
  /\ args = NoArgs
  /\ pc = "dp_entry"
  /\ poly_db \in PolyTables
  /\ poly_tx = poly_db
  /\ object_type_id \in PolyTypes
  /\ contact_ids \in IdLists
  /\ batch_size \in 1..MaxBatchSize
  /\ chunk_start = 0
  /\ chunk = <<>>

NextPolymorphic ==
  \/ PolymorphicSignal
  \/ PolymorphicEntry
  \/ PolymorphicFor
  \/ PolymorphicDelete
  \/ PolymorphicCommit

SpecPolymorphic == InitPolymorphic /\ [][NextPolymorphic]_vars

\* the identifier alone, run on any content of the reading and contact tables
InitIdentifier ==
  /\ \E R \in SUBSET Ids, C \in SUBSET Ids :
       /\ db = [AllRows EXCEPT !["reading"] = R, !["contact"] = C]
       /\ tx = db
  /\ \E d \in DataSets : /\ readingKind = Layout(ReadingKindSeq, d)
                         /\ contactProfile = Layout(ContactProfileSeq, d)
  /\ deletion_log = [t \in TableNames |-> <<>>]
  /\ InitLocals
  /\ PolymorphicIdle
  /\ cutoff_file \in ReportFiles
  /\ script = ""
  /\ args = NoArgs
  /\ pc = "idle"

NextIdentifier ==
  \/ Identify
  \/ IdentifyRaises

SpecIdentifier == InitIdentifier /\ [][NextIdentifier]_vars

\* ------------------------------------------------------------------ claims
\* the deletion_log rows the current process_table call has inserted
CallEntries ==
  SubSeq(deletion_log[table_name], callLogLen + 1, Len(deletion_log[table_name]))

\* the current call went through its batch loop and is returning
LoopReturned == pc = "pt_done" /\ "last_processed_id" \in DOMAIN result

InBatch == pc \in {"delete", "commit", "log"}

\* C1: a non-dry-run process_table call that starts at start_id <= cutoff_id
\* and returns without the interrupt flag set has logged ranges that are
\* ascending, contiguous, each of width 1..batch_size, the first starting at
\* start_id and the last ending at cutoff_id: their union is exactly
\* [start_id, cutoff_id], without gap or overlap.
C1_BatchRangeCoverage ==
  (LoopReturned /\ ~args.dry_run /\ ~interrupted) =>
    LET E == CallEntries IN
      /\ Len(E) >= 1
      /\ E[1].batch_start_id = start_id
      /\ E[Len(E)].batch_end_id = cutoff_id
      /\ \A i \in 1..Len(E) :
           /\ E[i].batch_start_id <= E[i].batch_end_id
           /\ E[i].batch_end_id - E[i].batch_start_id + 1 <= args.batch_size
      /\ \A i \in 1..(Len(E) - 1) :
           E[i + 1].batch_start_id = E[i].batch_end_id + 1

\* a full run of two or more batches whose last batch is a partial one
C1_Witness ==
  /\ LoopReturned /\ ~args.dry_run /\ ~interrupted
  /\ Len(CallEntries) >= 2
  /\ LET e == CallEntries[Len(CallEntries)] IN
       e.batch_end_id - e.batch_start_id + 1 < args.batch_size

\* C2: once the interrupt flag is set no further batch is started, for this
\* table or a later one (the while test only leaves the loop), and the batch
\* in flight is carried through: when a non-dry-run call returns, every DELETE
\* it executed is committed and has its deletion_log row.
C2_InterruptDrainsBatch ==
  /\ [][(interrupted /\ pc = "loop") => pc' \in {"loop", "pt_done"}]_vars
  /\ [][(interrupted /\ pc = "pt_entry") => pc' \in {"pt_entry", "loop", "pt_done"}]_vars
  /\ [][(interrupted /\ InBatch) => (pc' \in {"delete", "commit", "log", "advance"} /\ interrupted')]_vars
  /\ []((LoopReturned /\ ~args.dry_run) =>
          /\ Len(CallEntries) = callDeletes
          /\ callDeletes = result.batches_processed
          /\ db = tx)

\* interrupted while a batch was in flight, with ids still to process: the
\* call returns with that batch logged
C2_Witness ==
  /\ LoopReturned /\ ~args.dry_run /\ interrupted
  /\ current_id <= cutoff_id
  /\ Len(CallEntries) >= 1

\* C3: the deletion_log rows of a table end in ascending order, so after an
\* interrupt that follows batch [a, b] the table's MAX(batch_end_id) is b; and
\* the first batch of a call starts at 1 + the batch_end_id last logged for
\* the table, or at 1 when the table has no row in deletion_log.
C3_ResumeAfterInterrupt ==
  /\ \A t \in TableNames :
       \A i \in 1..Len(deletion_log[t]) :
         deletion_log[t][i].batch_end_id <= deletion_log[t][Len(deletion_log[t])].batch_end_id
  /\ (LoopReturned /\ ~args.dry_run /\ Len(CallEntries) >= 1) =>
       CallEntries[Len(CallEntries)].batch_end_id = end_id
  /\ (InBatch /\ batches_processed = 0) =>
       LET rows == deletion_log[table_name] IN
         current_id = IF Len(rows) = 0 THEN 1
                      ELSE rows[Len(rows)].batch_end_id + 1

\* the first batch of a non-dry-run call that resumes after earlier batches
C3_Witness ==
  /\ pc = "delete" /\ batches_processed = 0
  /\ Len(deletion_log[table_name]) >= 1
  /\ current_id = deletion_log[table_name][Len(deletion_log[table_name])].batch_end_id + 1

\* C4: a process_table call for a table that an earlier non-dry-run call has
\* processed up to the same cutoff finds start_id > cutoff_id and is a no-op:
\* it returns total_deleted = 0 and batches_processed = 0, executes no DELETE
\* and inserts no deletion_log row.
C4_ResumeIdempotence ==
  /\ (pc \in {"loop", "delete", "commit", "log", "advance"}) =>
       <<table_name, cutoff_id>> \notin completed
  /\ (pc = "pt_done" /\ <<table_name, cutoff_id>> \in completed) =>
       /\ start_id > cutoff_id
       /\ result = [total_deleted |-> 0, batches_processed |-> 0]
       /\ callDeletes = 0
       /\ Len(deletion_log[table_name]) = callLogLen
       /\ db = tx

\* a second, non-dry-run call for a table already processed to the cutoff
C4_Witness ==
  /\ pc = "pt_done" /\ <<table_name, cutoff_id>> \in completed /\ ~args.dry_run
  /\ cutoff_id > 0

\* the child tables configured for contact c in the running cascade deleter
ConfiguredChildren(c) ==
  IF script = "production" THEN ProductionChildren(contactProfile[c].objType)
  ELSE EnhancedChildren

\* C5: with the Contact object type known, the DELETE of a contact row
\* executes only after a delete has been attempted on every configured child
\* table for that contact, in every execution, interrupted ones included.
C5_ParentAfterChildren ==
  [][\A c \in Ids :
       (script \in {"enhanced", "production"} /\ has_contact_type
          /\ c \in tx["contact"] /\ c \notin tx'["contact"])
       => \A i \in 1..Len(ConfiguredChildren(c)) :
            <<c, ConfiguredChildren(c)[i]>> \in attempted]_vars

\* contact c has an invoice, journal entry, note or email dated within the
\* 7-year retention window, read in view v
HasRecentActivity(v, c) ==
  \/ c \in v["invoice"] /\ contactProfile[c].inv
  \/ contactProfile[c].je
  \/ c \in v["note"] /\ contactProfile[c].note
  \/ c \in v["email"] /\ contactProfile[c].email

\* C6: no contact row and no dependent row of a contact is deleted while the
\* contact has an invoice, journal entry, note or email within the retention
\* window, or has no deactivation older than 7 years, whatever the cutoff.
C6_EligibilityRechecked ==
  [][\A c \in Ids : \A t \in TableNames \ {"reading"} :
       (c \in db[t] /\ c \notin db'[t])
       => (contactProfile[c].tenantOld /\ ~HasRecentActivity(db, c))]_vars

\* the cutoff file is none of the operator-supplied ones: the identifier
\* has written it
IdentifierWrote == cutoff_file \notin (ReportFiles \cup FlatFiles)

\* rows with primary key <= cut whose activity is newer than the entity's
\* retention window
ReadingRecheck(v, cut) ==
  { r \in v["reading"] : r <= cut /\ ImportedInWindow(r) }
ContactRecheck(v, cut) ==
  { c \in v["contact"] : c <= cut /\ ~contactProfile[c].modifiedOld }

\* C7: for every cutoff entry the identifier writes, is_safe = true implies
\* that no row with primary key <= cutoff_id has activity newer than the
\* entity's retention window.
C7_SafeMeansRecheckZero ==
  [][(pc = "idle" /\ cutoff_file' # cutoff_file) =>
       LET e == cutoff_file'.cutoffs IN
         /\ e["reading"].is_safe => ReadingRecheck(db, e["reading"].cutoff_id) = {}
         /\ e["contact"].is_safe => ContactRecheck(db, e["contact"].cutoff_id) = {}]_vars

\* C8: a run given a report whose safety_status is REQUIRES_REVIEW, or an
\* entry whose is_safe is false, executes no DELETE for that entity (the
\* command line has no override option).
C8_NoAutoProceed ==
  pc \in {"delete", "commit", "log"} =>
    /\ cutoff_file.safety_status = "SAFE"
    /\ cutoff_config[table_name].is_safe

\* C9: a run of the deleter on a report the identifier wrote deletes no
\* contact row whose legal-hold flag is set.
C9_LegalHoldNeverDeleted ==
  [][\A c \in Ids :
       (IdentifierWrote /\ c \in db["contact"] /\ c \notin db'["contact"])
       => ~contactProfile[c].legalHold]_vars

\* C10: when no reading row falls within the 2-year window the identifier
\* writes cutoff_id = max(reading_id) + 1 with estimated_deletions = 0, and a
\* deleter run on that report removes no reading row.
C10_FallbackDeletesNothing ==
  /\ [][(pc = "idle" /\ cutoff_file' # cutoff_file /\ InWindowReadings(db) = {})
          => cutoff_file'.cutoffs["reading"] =
               CutoffEntry(SetMax(db["reading"]) + 1, 0, TRUE)]_vars
  /\ [][(IdentifierWrote /\ InWindowReadings(db) = {})
          => db'["reading"] = db["reading"]]_vars

\* C11: with at least one reading row inside the retention window, the
\* reading cutoff_id the identifier writes is the minimum in-window
\* reading_id minus one.
C11_CutoffIsMinMinusOne ==
  [][(pc = "idle" /\ cutoff_file' # cutoff_file /\ InWindowReadings(db) # {})
       => cutoff_file'.cutoffs["reading"].cutoff_id
            = SetMin(InWindowReadings(db)) - 1]_vars

\* C12: in every deleter variant a reading row is deleted only if its id is
\* <= the cutoff, it is older than the 2-year window (by import date) and no
\* sm_usage row references it.
C12_ReadingDeletePredicate ==
  [][\A r \in Ids :
       (r \in db["reading"] /\ r \notin db'["reading"])
       => /\ r <= Get(cutoff_file, "reading_cutoff", 0)
          /\ ~ImportedInWindow(r)
          /\ ~Billed(r)]_vars

\* C13: in a report the identifier wrote, safety_status is REQUIRES_REVIEW
\* whenever a cutoff entry has is_safe = false, and SAFE only when every
\* entry has is_safe = true.
C13_StatusAggregatesSafety ==
  IdentifierWrote =>
    LET e == cutoff_file.cutoffs IN
      /\ cutoff_file.safety_status \in {"SAFE", "REQUIRES_REVIEW"}
      /\ cutoff_file.safety_status = "SAFE"
           <=> \A t \in DOMAIN e : e[t].is_safe

\* a report the identifier wrote with a failing contact safety check
C13_Witness ==
  /\ IdentifierWrote
  /\ ~cutoff_file.cutoffs["contact"].is_safe
  /\ cutoff_file.safety_status = "REQUIRES_REVIEW"

\* C14: when the queries of one entity raise while the report is built, the
\* run still writes a report in which that entity's entry is cutoff_id = 0,
\* estimated_deletions = 0, is_safe = false and the other entity's entry is
\* the computed one.
C14_EntityFaultIsolated ==
  [][(identifier_raised' # "" /\ identifier_raised' # identifier_raised) =>
       LET failed == identifier_raised'
           whole == generate_cutoff_report(db)
       IN /\ "cutoffs" \in DOMAIN cutoff_file'
          /\ cutoff_file'.cutoffs[failed] = CutoffEntry(0, 0, FALSE)
          /\ \A e \in Entities \ {failed} :
               cutoff_file'.cutoffs[e] = whole.cutoffs[e]]_vars

\* C15: when the Contact object type cannot be resolved from the loaded type
\* map the run aborts: no contact row is deleted while the deletes of its
\* polymorphic dependencies are skipped for lack of the type id.
C15_UnresolvedTypeFailsLoudly ==
  [][(script = "enhanced" /\ ~has_contact_type)
       => /\ tx'["contact"] = tx["contact"]
          /\ db'["contact"] = db["contact"]]_vars

\* C16: when a statement raises while one contact's cascade is being
\* deleted, the rollback undoes the whole unit: the contact's row and every
\* dependent row it had when the unit began are still present.
C16_UnitAllOrNothing ==
  [][(faults' # faults) =>
       \A t \in unit_start : contacts[ci] \in db'[t] /\ contacts[ci] \in tx'[t]]_vars

\* C17: in a non-dry-run call every iteration of process_table commits its
\* DELETE, then inserts exactly one deletion_log row carrying the batch's
\* start and end ids and its row count (zero included), and only then
\* advances current_id.
C17_CommitThenLogThenAdvance ==
  LET rows == deletion_log[table_name] IN
  /\ (pc = "log" /\ ~args.dry_run) =>
       /\ db = tx
       /\ Len(rows) = callLogLen + batches_processed
  /\ (pc = "advance" /\ ~args.dry_run) =>
       /\ db = tx
       /\ Len(rows) = callLogLen + batches_processed + 1
       /\ rows[Len(rows)].batch_start_id = current_id
       /\ rows[Len(rows)].batch_end_id = end_id
       /\ rows[Len(rows)].records_deleted = deleted_count
  /\ (pc = "loop" /\ ~args.dry_run) =>
       Len(rows) = callLogLen + batches_processed

\* a batch that deleted no row has been committed and logged
C17_Witness ==
  /\ pc = "advance" /\ ~args.dry_run
  /\ deleted_count = 0
  /\ batches_processed >= 1
  /\ Len(deletion_log[table_name]) = callLogLen + batches_processed + 1

\* the positions at which a deleter executes or commits a DELETE statement
DeleteStatements ==
  {"delete", "commit", "e_read", "e_dep", "e_contact", "e_bulk",
   "p_read", "p_dep", "p_contact"}

\* C18: while a deleter of any of the three scripts runs with dry_run set,
\* it is never at a DELETE statement, and no step it takes changes the rows
\* of any data table, committed or seen by its connection
C18_DryRunDeletesNothing ==
  /\ []((script # "" /\ args.dry_run) => pc \notin DeleteStatements)
  /\ [][(script # "" /\ args.dry_run) => (db' = db /\ tx' = db)]_vars

\* a dry run of batch_deleter has walked over a batch that holds rows a real
\* run would delete
C18_Witness ==
  /\ script = "batch" /\ args.dry_run /\ pc = "advance"
  /\ BatchRows(tx, table_name, current_id, end_id, cutoff_id) # {}
  /\ db = tx

\* the table a cascade deleter started with these arguments works on first
\* when it is not a dry run
FirstStage ==
  IF args.table # "" THEN args.table
  ELSE IF Get(cutoff_file, "reading_cutoff", 0) > 0 THEN "reading"
  ELSE IF Get(cutoff_file, "contact_cutoff", 0) > 0 THEN "contact"
  ELSE "none"

\* C19: a dry run goes through the batches a real run goes through.  In
\* batch_deleter the batch in hand is, in either mode, the
\* batches_processed-th range of batch_size ids after the last logged id,
\* clamped to the cutoff; in the cascade deleters a dry run started with
\* arguments that give a real run a table to work on enters that table's
\* batch loop as the real run does
C19_DryRunParity ==
  /\ []((script = "batch" /\ pc = "advance") =>
          /\ current_id = start_id + batches_processed * args.batch_size
          /\ end_id = Min(current_id + args.batch_size - 1, cutoff_id))
  /\ [][(pc \in {"e_run", "p_run"} /\ args.dry_run /\ FirstStage # "none")
          => pc' # "idle"]_vars

\* C20: delete_polymorphic_records_by_type works on consecutive chunks of at
\* most chunk_size ids of its list; a DELETE removes at most batch_size rows,
\* all of the given object type and of the chunk in hand; every sub-batch is
\* committed before the next statement; and when the call returns without
\* an interrupt, no row of the object type with an object id of the list
\* is left
C20_PolymorphicDeleteComplete ==
  /\ [](pc \in {"dp_while", "dp_commit"} =>
          /\ Len(chunk) \in 1..chunk_size
          /\ chunk_start % chunk_size = 0
          /\ \A j \in 1..Len(chunk) :
               chunk[j] = contact_ids[chunk_start - chunk_size + j]
          /\ \/ chunk_start - chunk_size + Len(chunk) = Len(contact_ids)
             \/ Len(chunk) = chunk_size)
  /\ [](pc \in {"dp_for", "dp_while", "dp_done"} => poly_db = poly_tx)
  /\ []((pc = "dp_done" /\ ~interrupted) =>
          \A o \in Range(contact_ids) :
            poly_db[<<object_type_id, o>>] = 0 /\ poly_tx[<<object_type_id, o>>] = 0)
  /\ [][/\ \A k \in PolyKeys :
             /\ poly_tx'[k] # poly_tx[k] => k \in Matching(object_type_id, chunk)
             /\ poly_tx'[k] <= poly_tx[k]
        /\ SumOver(poly_tx, PolyKeys) - SumOver(poly_tx', PolyKeys) <= batch_size
       ]_vars

\* a call on a list of more than one chunk has returned uninterrupted after
\* deleting more rows than one sub-batch holds
C20_Witness ==
  /\ pc = "dp_done" /\ ~interrupted
  /\ Len(contact_ids) > chunk_size
  /\ total_deleted > batch_size
  /\ \A o \in Range(contact_ids) : poly_db[<<object_type_id, o>>] = 0

\* main of batch_deleter.py: the tables its for loop has passed
TablesDone == { tables_to_process[j] : j \in 1..(tableIdx - 1) }

\* in a run of batch_deleter over all tables, process_table is called for
\* table `second` only after the loop has passed table `first`
BatchOrder(first, second) ==
  (script = "batch" /\ args.table = "" /\ pc = "pt_entry"
     /\ table_name = second) => first \in TablesDone

\* in delete_contact_dependencies of the enhanced deleter, a contact's delete
\* on child table `second` is issued only after its delete on `first`
UnitOrder(first, second) ==
  script = "enhanced" =>
    \A c \in Ids : <<c, second>> \in attempted => <<c, first>> \in attempted

\* a run of a cascade deleter over all tables takes readings first (when a
\* reading cutoff is set) and contacts last
StageOrder ==
  [][/\ (stage = "" /\ stage' \in {"contact", "community"} /\ args'.table = "")
          => Get(cutoff_file, "reading_cutoff", 0) <= 0
     /\ stage = "community" => stage' \in {"community", "contact", ""}
     /\ stage = "contact" => stage' \in {"contact", ""}]_vars

RetentionEligible(v, c) ==
  /\ c \in v["contact"]
  /\ c \in v["tenant"] /\ contactProfile[c].tenantOld
  /\ NoRecentInvoice(v, c)
  /\ ~contactProfile[c].je
  /\ ~(c \in v["note"] /\ contactProfile[c].note)
  /\ ~(c \in v["email"] /\ contactProfile[c].email)

\* C22: the contact cutoff_id a run of the identifier writes is the greatest
\* id among the contacts that satisfy the retention predicate (0 when there
\* is none)
C22_ContactCutoffIsMaxEligible ==
  [][(pc = "idle" /\ cutoff_file' # cutoff_file)
       => cutoff_file'.cutoffs["contact"].cutoff_id
            = SetMax({ c \in Ids : RetentionEligible(db, c) })]_vars

\* C23: whatever failing statements and crashes have happened,
\* the committed table holds no row that the DELETE of a logged id range
\* removes, and the logged ranges of a table cover every id up to the one
\* the next run resumes after: no range is skipped unprocessed
C23_LoggedRangesCommitted ==
  \A t \in Range(processing_order) :
    LET rows == deletion_log[t]
        last == get_last_processed_id(t)
    IN /\ \A k \in 1..Len(rows) :
            BatchRows(db, t, rows[k].batch_start_id, rows[k].batch_end_id,
                      rows[k].batch_end_id) = {}
       /\ \A id \in 1..last :
            \E k \in 1..Len(rows) :
              rows[k].batch_start_id <= id /\ id <= rows[k].batch_end_id
       /\ BatchRows(db, t, 1, last, last) = {}

\* a run has ended abnormally and the audit log holds the range of a batch
\* that deleted rows
C23_Witness ==
  /\ faults >= 1
  /\ \E k \in 1..Len(deletion_log["reading"]) :
       deletion_log["reading"][k].records_deleted > 0
  /\ get_last_processed_id("reading") >= 2

\* C24: the batch loop of process_table ends after finitely many batches,
\* whatever integer batch_size the run was started with: every batch moves
\* current_id forward, so a call never goes through more batches than its
\* range [start_id, cutoff_id] has ids
C24_LoopTerminates ==
  /\ []((script = "batch" /\ pc \in {"loop", "delete", "commit", "log", "advance"})
          => batches_processed <= cutoff_id - start_id + 1)
  /\ [][(pc = "advance" /\ pc' = "loop") => current_id' > current_id]_vars

\* C25: no step of a dry run of batch_deleter changes the deletion_log
\* table, so when a dry-run call of process_table returns, the table's
\* resume position MAX(batch_end_id) + 1 is still the start_id the call
\* itself began at: a run started afterwards begins where it would have begun
\* without the dry run
C25_DryRunLeavesLog ==
  /\ [][(script = "batch" /\ args.dry_run) => deletion_log' = deletion_log]_vars
  /\ []((script = "batch" /\ args.dry_run /\ pc = "pt_done") =>
          /\ Len(deletion_log[table_name]) = callLogLen
          /\ get_last_processed_id(table_name) + 1 = start_id)

\* a dry-run call that resumed after logged batches has gone through a batch
\* and returned
C25_Witness ==
  /\ script = "batch" /\ args.dry_run /\ pc = "pt_done"
  /\ batches_processed >= 1
  /\ callLogLen >= 1
  /\ Len(deletion_log[table_name]) = callLogLen

\* C26: when the first run of batch_deleter, a real run over all tables, has
\* completed, no contact up to the contact cutoff that satisfied the
\* retention predicate when the run started is left in the contact table
C26_EligibleContactsDeleted ==
  (pc = "idle" /\ deletion_log["contact"] # <<>>) =>
    \A c \in Ids :
      (c <= cutoff_config["contact"].cutoff_id /\ RetentionEligible(AllRows, c))
        => c \notin db["contact"]

\* C27: when delete_contacts_batch leaves its loop in a run without interrupt
\* and without error, no contact up to the cutoff_id it was called with, and
\* of the filtered object type if a filter was given, is left in the table
C27_NoContactLeft ==
  [][(script = "production" /\ pc = "p_select" /\ pc' # "p_for"
        /\ ~interrupted /\ faults = 0)
       => ProductionMatches(db', Get(cutoff_file, "contact_cutoff", 0),
                            StageFilter(stage)) = {}]_vars

\* C28: with a cutoff file in the layout generate_cutoff_report writes, every
\* deleter bounds its reading deletes by cutoffs.reading.cutoff_id and its
\* contact deletes by cutoffs.contact.cutoff_id: batch_deleter inside
\* process_table, the cascade deleters when they enter their reading loop
\* and when they enter their contact loop
C28_ReportIsContract ==
  "cutoffs" \in DOMAIN cutoff_file =>
    /\ (script = "batch" /\ pc \in {"loop", "delete", "commit", "log", "advance"}
          /\ table_name \in {"reading", "contact"})
         => cutoff_id = cutoff_file.cutoffs[table_name].cutoff_id
    /\ (script \in {"enhanced", "production"} /\ pc \in {"e_read", "p_read"})
         => sel_cutoff = cutoff_file.cutoffs["reading"].cutoff_id
    /\ (script \in {"enhanced", "production"} /\ pc \in {"e_select", "p_select"}
          /\ contacts = <<>>)
         => sel_cutoff = cutoff_file.cutoffs["contact"].cutoff_id

\* C29: a call of process_table that has processed at least one batch
\* returns as last_processed_id the end_id of the last batch it processed
C29_ReturnsLastBatchEnd ==
  (script = "batch" /\ pc = "pt_done" /\ "last_processed_id" \in DOMAIN result
     /\ result.batches_processed >= 1)
    => result.last_processed_id = end_id

\* C30: process_table called for a table whose cutoff_id is 0 returns from
\* its entry without a DELETE and without an audit row, with total_deleted
\* = 0 and batches_processed = 0, whatever rows the audit log holds
C30_ZeroCutoffDoesNothing ==
  /\ [][(script = "batch" /\ pc = "pt_entry" /\ pc' # "pt_entry"
           /\ cutoff_config[table_name].cutoff_id = 0)
          => /\ pc' = "pt_done"
             /\ db' = db
             /\ deletion_log' = deletion_log
             /\ result'.total_deleted = 0
             /\ result'.batches_processed = 0]_vars
  /\ []((script = "batch" /\ pc = "pt_done" /\ cutoff_id = 0)
          => /\ callDeletes = 0
             /\ Len(deletion_log[table_name]) = callLogLen
             /\ result.total_deleted = 0
             /\ result.batches_processed = 0)

C30_Witness ==
  /\ script = "batch" /\ pc = "pt_done"
  /\ cutoff_id = 0
  /\ deletion_log[table_name] # <<>>
  /\ ~args.dry_run

====
